---- MODULE Spec2Model ----
(***************************************************************************)
(* Model of wechat_to_mkdocs.py: the incremental synchronisation between   *)
(* articles.txt (desired URLs and #DELETE: markers), downloaded.json (the  *)
(* manifest), the markdown/ output directory, markdown/images/ and the nav *)
(* list of mkdocs.yml, over repeated executions of main().                 *)
(*                                                                         *)
(* Strings that the code inspects character by character (file names,      *)
(* titles, image directory names) are sequences of one-character strings.  *)
(***************************************************************************)
EXTENDS Integers, Sequences, FiniteSets, TLC

\* ------------------------------------------------------------------ bounds
MaxRuns == 2

MaxLines == 2

\* ------------------------------------------------------- model universes
\* URLs that may appear on the lines of articles.txt.
URLs == {"u1", "u2"}

\* Titles the fetched page may carry (the second has no character that
\* survives sanitisation).
Titles == {<<"A", " ", "b">>, <<"?">>}

\* ------------------------------------------------------------- helpers
Range(s) == {s[i] : i \in DOMAIN s}

BoundedSeq(S, n) == UNION {[1..k -> S] : k \in 0..n}

Restrict(f, S) == [x \in S |-> f[x]]

EndsWith(s, suffix) ==
    /\ Len(s) >= Len(suffix)
    /\ SubSeq(s, Len(s) - Len(suffix) + 1, Len(s)) = suffix

DigitChars == <<"0", "1", "2", "3", "4", "5", "6", "7", "8", "9">>

IsDigit(c) == c \in Range(DigitChars)

DigitVal(c) == (CHOOSE i \in DOMAIN DigitChars : DigitChars[i] = c) - 1

DotMd == <<".", "m", "d">>

\* The value of a record's "filename" when none is recorded (None); like
\* None, the empty string fails the test `if not filename`.
NoFilename == <<>>

\* f.split('.')[0]
RECURSIVE Stem(_)
Stem(f) ==
    IF f = <<>> \/ Head(f) = "." THEN <<>> ELSE <<Head(f)>> \o Stem(Tail(f))

\* int(s) for a string of decimal digits
RECURSIVE IntOf(_)
IntOf(s) ==
    IF s = <<>> THEN 0 ELSE 10 * IntOf(SubSeq(s, 1, Len(s) - 1)) + DigitVal(s[Len(s)])

\* int(...) raises ValueError unless the text is a decimal numeral
Parses(s) == s # <<>> /\ \A i \in DOMAIN s : IsDigit(s[i])

RECURSIVE Decimal(_)
Decimal(n) ==
    IF n < 10 THEN <<DigitChars[n + 1]>>
    ELSE Decimal(n \div 10) \o <<DigitChars[(n % 10) + 1]>>

RECURSIVE ZeroPad(_, _)
ZeroPad(s, width) == IF Len(s) >= width THEN s ELSE ZeroPad(<<"0">> \o s, width)

\* f"{article_num:03d}.md"
FileNameOf(article_num) == ZeroPad(Decimal(article_num), 3) \o DotMd

SetMax(S) == IF S = {} THEN 0 ELSE CHOOSE m \in S : \A x \in S : x <= m

\* hashlib.md5(url.encode()).hexdigest()[:8]: an abstract digest table, one
\* 8-character value per URL of the model.
url_hash(url) ==
    IF url = "u1" THEN <<"3", "c", "0", "a", "9", "f", "1", "e">>
    ELSE <<"b", "7", "2", "d", "4", "4", "0", "5">>

\* c.isalnum() for the characters that occur in Titles
IsAlnum(c) == c \in {"A", "b"}

RECURSIVE StripLeft(_)
StripLeft(s) == IF s # <<>> /\ Head(s) = " " THEN StripLeft(Tail(s)) ELSE s

RECURSIVE StripRight(_)
StripRight(s) ==
    IF s # <<>> /\ s[Len(s)] = " " THEN StripRight(SubSeq(s, 1, Len(s) - 1)) ELSE s

Article == <<"a", "r", "t", "i", "c", "l", "e">>

\* safe_title of process_images
safe_title(title) ==
    LET kept == SelectSeq(title, LAMBDA c : IsAlnum(c) \/ c \in {".", "_", "-", " "})
        stripped == StripRight(StripLeft(kept))
        replaced == [i \in DOMAIN stripped |->
                        IF stripped[i] = " " THEN "_" ELSE stripped[i]]
    IN  IF replaced = <<>> THEN Article ELSE replaced

\* name of the directory process_images creates under markdown/images
article_image_dir(title, url) == safe_title(title) \o <<"_">> \o url_hash(url)


\* ---------------------------------------------------------------- state
VARIABLES
    downloaded,               \* downloaded.json: URL -> [filename, downloaded_at]
    markdown,                 \* files of markdown/: file name -> content
    images,                   \* names of the directories under markdown/images
    nav,                      \* the "nav" list of mkdocs.yml
    pc,                       \* position of main()
    runs,                     \* executions of main() started so far (the clock)
    delete_urls,              \* load_delete_urls() of this run
    urls,                     \* load_articles() of this run
    di,                       \* index of the next element of delete_urls
    deleted_files,            \* main's deleted_files
    urls_to_process,          \* main's urls_to_process
    ui,                       \* index of the next element of urls_to_process
    article_files_to_update,  \* main's article_files_to_update
    has_changes,              \* main's has_changes
    fate,                     \* outcome of fetch/convert per URL met in this run
    build_rc,                 \* return codes of the mkdocs builds of this run
    snap,                     \* history: disk state and inputs at the run's start
    written,                  \* history: every successful save_markdown, in order
    live,                     \* history: URLs ingested and not asked to be deleted since
    procs                     \* executions of main() running side by side: their locals

vars == <<downloaded, markdown, images, nav, pc, runs, delete_urls, urls, di,
          deleted_files, urls_to_process, ui, article_files_to_update,
          has_changes, fate, build_rc, snap, written, live, procs>>

disk == <<downloaded, markdown, images, nav>>

\* --------------------------------------------------- downloaded.json
\* variant: the file is rewritten with the new record only
save_downloaded_url_fresh(articles, url, filename, now) ==
    [u \in {url} |-> [filename |-> filename, downloaded_at |-> now]]

\* save_downloaded_url: load, set the record of url, rewrite the file
save_downloaded_url(articles, url, filename, now) ==
    [u \in DOMAIN articles \cup {url} |->
        IF u = url THEN [filename |-> filename, downloaded_at |-> now]
        ELSE articles[u]]

\* `del articles[url]` followed by the rewrite of the file
remove_record(articles, url) == Restrict(articles, DOMAIN articles \ {url})

\* load_downloaded_urls on the parsed file: the legacy shape {"urls": [...]}
\* gives one record without file name per listed URL (no downloaded_at: 0)
load_downloaded_urls(data) ==
    IF data.has_urls
        THEN [u \in Range(data.urls) |-> [filename |-> NoFilename, downloaded_at |-> 0]]
        ELSE data.articles

\* ------------------------------------------------------ delete_article
\* variant: no search of the directory
resolved_filenames_recorded(articles, url, md) == {articles[url].filename}

\* The file name delete_article works with: the recorded one, else any .md
\* file whose content contains the URL (os.listdir gives no order, the
\* first hit wins), else none.
resolved_filenames(articles, url, md) ==
    IF articles[url].filename # NoFilename THEN {articles[url].filename}
    ELSE LET hits == {f \in DOMAIN md : EndsWith(f, DotMd) /\ url \in md[f].text}
         IN  IF hits = {} THEN {NoFilename} ELSE hits

\* the directories of markdown/images that end with _<url_hash>
matching_image_dirs(imgs, url) ==
    {d \in imgs : EndsWith(d, <<"_">> \o url_hash(url))}

\* the value delete_article returns for a URL that has a record
delete_result(filename, md, imgs, url) ==
    \/ filename # NoFilename /\ filename \in DOMAIN md
    \/ matching_image_dirs(imgs, url) # {}

\* ------------------------------------------------ get_next_article_number
numbered_files(md) ==
    {f \in DOMAIN md : IsDigit(f[1]) /\ EndsWith(f, DotMd) /\ Parses(Stem(f))}

\* variant: the number of numbered files plus one
get_next_article_number_count(md) == Cardinality(numbered_files(md)) + 1

get_next_article_number(md) ==
    SetMax({IntOf(Stem(f)) : f \in numbered_files(md)}) + 1

\* ------------------------------------------------------------ mkdocs.yml
\* A nav item is a one-key mapping {title: path} (kind "dict") or any other
\* value (kind "other"), which the code passes through.
DictItem(title, path) == [kind |-> "dict", title |-> title, path |-> path]

OtherItem(text) == [kind |-> "other", title |-> <<>>, path |-> text]

nav_paths(n) == {n[i].path : i \in {j \in DOMAIN n : n[j].kind = "dict"}}

\* is_deleted of main's pruning loop; articles is the manifest as
\* load_downloaded_urls() returns it inside the loop
is_deleted(path, deleted, articles) ==
    \E i \in DOMAIN deleted :
        /\ deleted[i] \in DOMAIN articles
        /\ articles[deleted[i]].filename = path

\* main, lines 441-472: config["nav"][0] of an empty list raises, the
\* exception is caught and mkdocs.yml is not rewritten
prune_nav(n, deleted, articles) ==
    IF n = <<>> THEN n
    ELSE <<n[1]>> \o SelectSeq(Tail(n),
             LAMBDA item : item.kind # "dict" \/ ~is_deleted(item.path, deleted, articles))

RECURSIVE append_new(_, _, _)
append_new(n, existing_files, articles_files) ==
    IF articles_files = <<>> THEN n
    ELSE LET filename == Head(articles_files)[1]
             title == Head(articles_files)[2]
         IN  append_new(IF filename \notin existing_files
                            THEN Append(n, DictItem(title, filename)) ELSE n,
                        existing_files, Tail(articles_files))

\* variant: no test of existing_files
update_mkdocs_nav_nocheck(n, articles_files) == append_new(n, {}, articles_files)

\* variant: the new entries are put before the existing ones
update_mkdocs_nav_front(n, articles_files) ==
    append_new(<<>>, nav_paths(n), articles_files) \o n

update_mkdocs_nav(n, articles_files) == append_new(n, nav_paths(n), articles_files)

\* variant: no filter
filter_new_none(us, articles) == us

\* urls_to_process of main
filter_new(us, articles) == SelectSeq(us, LAMBDA u : u \notin DOMAIN articles)

\* variant: the except clause around the whole loop
after_failure_abort(i, n) == n + 1

\* where main goes after a URL whose processing raised: the except clause is
\* inside the for loop, so the loop goes on with the next URL
after_failure(i, n) == i + 1

\* ------------------------------------------------------------------ Init
HomeItem == DictItem(<<"H">>, <<"i", "n", "d", "e", "x", ".", "m", "d">>)

PlainItem == OtherItem(<<"t", "a", "g", "s", ".", "m", "d">>)

InitNavs == {<<>>, <<HomeItem, PlainItem>>}

EmptyFn == [x \in {} |-> x]

\* the operating-system processes that may execute main() at the same time
Procs == {"p1", "p2"}

\* the locals of an execution of main() that has not started
IdleProc ==
    [pc |-> "idle", alone |-> TRUE, downloaded_urls |-> EmptyFn,
     urls_to_process |-> <<>>, i |-> 1, title |-> <<>>, article_num |-> 0,
     articles |-> EmptyFn, article_files_to_update |-> <<>>]

Init ==
    /\ downloaded = EmptyFn
    /\ markdown = [f \in {HomeItem.path} |-> [title |-> <<"H">>, text |-> {}]]
    /\ images = {}
    /\ nav \in InitNavs
    /\ pc = "idle"
    /\ runs = 0
    /\ delete_urls = <<>>
    /\ urls = <<>>
    /\ di = 1
    /\ deleted_files = <<>>
    /\ urls_to_process = <<>>
    /\ ui = 1
    /\ article_files_to_update = <<>>
    /\ has_changes = FALSE
    /\ fate = EmptyFn
    /\ build_rc = <<>>
    /\ snap = [downloaded |-> EmptyFn, markdown |-> EmptyFn, images |-> {},
               nav |-> <<>>, delete_urls |-> <<>>, urls |-> <<>>,
               repeat |-> FALSE, written |-> 0, preIngest |-> {}, missing |-> FALSE]
    /\ written = <<>>
    /\ live = {}
    /\ procs = [p \in Procs |-> IdleProc]


\* --------------------------------------------------------------- actions
\* main starts: os.makedirs, load_delete_urls.  articles.txt is whatever the
\* user left there: the #DELETE: lines and the URL lines, each in file order.
StartRun ==
    /\ pc \in {"idle", "done", "aborted"}
    /\ runs < MaxRuns
    /\ \E dels \in BoundedSeq(URLs, MaxLines), us \in BoundedSeq(URLs, MaxLines) :
        /\ delete_urls' = dels
        /\ urls' = us
        /\ snap' = [downloaded |-> downloaded, markdown |-> markdown,
                    images |-> images, nav |-> nav,
                    delete_urls |-> dels, urls |-> us,
                    repeat |-> /\ runs > 0
                               /\ dels = delete_urls
                               /\ us = urls
                               /\ Range(us) \subseteq DOMAIN downloaded,
                    written |-> Len(written), preIngest |-> {}, missing |-> FALSE]
        /\ pc' = IF dels # <<>> THEN "delete" ELSE "load"
    /\ runs' = runs + 1
    /\ di' = 1
    /\ ui' = 1
    /\ deleted_files' = <<>>
    /\ urls_to_process' = <<>>
    /\ article_files_to_update' = <<>>
    /\ has_changes' = FALSE
    /\ fate' = EmptyFn
    /\ build_rc' = <<>>
    /\ UNCHANGED procs
    /\ UNCHANGED <<downloaded, markdown, images, nav, written, live>>

\* pc after the last element of delete_urls
AfterDeletes(deleted) == IF deleted # <<>> THEN "prune" ELSE "load"

\* variant: the record is looked up after the image directories are removed
images_without_record_late(imgs, url) == imgs \ matching_image_dirs(imgs, url)

\* markdown/images after delete_article(url) for a URL without record: the
\* function returns at line 104, before it looks at any directory
images_without_record(imgs, url) == imgs

\* one iteration of `for url in delete_urls`, the URL has no record
DeleteUnknown ==
    /\ pc = "delete"
    /\ delete_urls[di] \notin DOMAIN downloaded
    /\ images' = images_without_record(images, delete_urls[di])
    /\ di' = di + 1
    /\ pc' = IF di = Len(delete_urls) THEN AfterDeletes(deleted_files) ELSE "delete"
    /\ live' = live \ {delete_urls[di]}
    /\ UNCHANGED procs
    /\ UNCHANGED <<downloaded, markdown, nav, runs, delete_urls, urls,
                   deleted_files, urls_to_process, ui, article_files_to_update,
                   has_changes, fate, build_rc, snap, written>>

\* one iteration of `for url in delete_urls`, the URL has a record
DeleteArticle ==
    /\ pc = "delete"
    /\ LET url == delete_urls[di] IN
        /\ url \in DOMAIN downloaded
        /\ \E filename \in resolved_filenames(downloaded, url, markdown) :
            LET deleted == delete_result(filename, markdown, images, url)
                dfs == IF deleted THEN Append(deleted_files, url) ELSE deleted_files
            IN  /\ markdown' = Restrict(markdown, DOMAIN markdown \ {filename})
                /\ images' = images \ matching_image_dirs(images, url)
                /\ downloaded' = remove_record(downloaded, url)
                /\ deleted_files' = dfs
                /\ has_changes' = (has_changes \/ deleted)
                /\ pc' = IF di = Len(delete_urls) THEN AfterDeletes(dfs) ELSE "delete"
    /\ di' = di + 1
    /\ live' = live \ {delete_urls[di]}
    /\ UNCHANGED procs
    /\ UNCHANGED <<nav, runs, delete_urls, urls, urls_to_process, ui,
                   article_files_to_update, fate, build_rc, snap, written>>

\* main, lines 441-472
PruneNav ==
    /\ pc = "prune"
    /\ nav' = prune_nav(nav, deleted_files, downloaded)
    /\ pc' = "load"
    /\ UNCHANGED procs
    /\ UNCHANGED <<downloaded, markdown, images, runs, delete_urls, urls, di,
                   deleted_files, urls_to_process, ui, article_files_to_update,
                   has_changes, fate, build_rc, snap, written, live>>

\* variant: the browser is started without the test of line 489
after_load_always(todo) == "ingest"

\* main, lines 479-492 and 516-517: with nothing to process main goes to the
\* build, else it starts the browser and enters the loop
after_load(todo) == IF todo = <<>> THEN "build" ELSE "ingest"

\* main, lines 478-492: load_articles, load_downloaded_urls, the filter and,
\* with something to process, init_driver
LoadArticles ==
    /\ pc = "load"
    /\ LET todo == IF urls = <<>> THEN <<>> ELSE filter_new(urls, downloaded) IN
        /\ urls_to_process' = todo
        /\ pc' = after_load(todo)
    /\ snap' = [snap EXCEPT !.preIngest = DOMAIN markdown]
    /\ UNCHANGED procs
    /\ UNCHANGED <<downloaded, markdown, images, nav, runs, delete_urls, urls, di,
                   deleted_files, ui, article_files_to_update, has_changes,
                   fate, build_rc, written, live>>

\* pc after the iteration that leaves the loop index at i
AfterIngest(i, added) ==
    IF i <= Len(urls_to_process) THEN "ingest"
    ELSE IF added # <<>> THEN "nav" ELSE "build"

\* The outcomes the URL of this iteration may have: a URL either fails
\* throughout one run or does not, and fails in fetch_article_html (nothing
\* done yet) or after process_images has made the image directory.
Fates(url) == IF url \in DOMAIN fate THEN {fate[url]} ELSE {"ok", "fetch", "convert"}

SetFate(url, f) == [u \in DOMAIN fate \cup {url} |-> IF u = url THEN f ELSE fate[u]]

\* one iteration of `for url in urls_to_process` that reaches its end; texts
\* are the sets of URLs the text of the fetched article may contain
Ingest(texts) ==
    /\ pc = "ingest"
    /\ LET url == urls_to_process[ui] IN
        /\ "ok" \in Fates(url)
        /\ fate' = SetFate(url, "ok")
        /\ \E title \in Titles, text \in texts :
            LET article_num == get_next_article_number(markdown)
                filename == FileNameOf(article_num)
                added == Append(article_files_to_update, <<filename, title>>)
            IN  /\ images' = images \cup {article_image_dir(title, url)}
                /\ markdown' = [f \in DOMAIN markdown \cup {filename} |->
                                   IF f = filename THEN [title |-> title, text |-> text]
                                   ELSE markdown[f]]
                /\ article_files_to_update' = added
                /\ downloaded' = save_downloaded_url(downloaded, url, filename, runs)
                /\ written' = Append(written,
                                  [url |-> url, num |-> article_num, filename |-> filename,
                                   title |-> title, fresh |-> filename \notin DOMAIN markdown])
                /\ pc' = AfterIngest(ui + 1, added)
    /\ has_changes' = TRUE
    /\ ui' = ui + 1
    /\ live' = live \cup {urls_to_process[ui]}
    /\ UNCHANGED procs
    /\ UNCHANGED <<nav, runs, delete_urls, urls, di, deleted_files,
                   urls_to_process, build_rc, snap>>

\* the article's text contains no URL of the model
IngestArticle == Ingest({{}})

\* one iteration that raises: caught at line 506
IngestFails ==
    /\ pc = "ingest"
    /\ LET url == urls_to_process[ui] IN
        \E f \in Fates(url) \ {"ok"} :
            /\ fate' = SetFate(url, f)
            /\ \E title \in Titles :
                  images' = IF f = "convert"
                               THEN images \cup {article_image_dir(title, url)}
                               ELSE images
    /\ ui' = after_failure(ui, Len(urls_to_process))
    /\ pc' = AfterIngest(ui', article_files_to_update)
    /\ UNCHANGED procs
    /\ UNCHANGED <<downloaded, markdown, nav, runs, delete_urls, urls, di,
                   deleted_files, urls_to_process, article_files_to_update,
                   has_changes, build_rc, snap, written, live>>

\* main, lines 513-515
UpdateNav ==
    /\ pc = "nav"
    /\ nav' = update_mkdocs_nav(nav, article_files_to_update)
    /\ pc' = "build"
    /\ UNCHANGED procs
    /\ UNCHANGED <<downloaded, markdown, images, runs, delete_urls, urls, di,
                   deleted_files, urls_to_process, ui, article_files_to_update,
                   has_changes, fate, build_rc, snap, written, live>>

\* variant: a build in the `if has_changes` branch and one more after it
build_calls_twice(changed) == IF changed THEN 2 ELSE 1

\* the number of build_mkdocs() calls of lines 521-526: one in either branch
build_calls(changed) == 1

\* main, lines 521-528: build_mkdocs in either branch, then the last log line
Build ==
    /\ pc = "build"
    /\ \E rcs \in [1..build_calls(has_changes) -> {0, 1}] : build_rc' = build_rc \o rcs
    /\ pc' = "done"
    /\ UNCHANGED procs
    /\ UNCHANGED <<downloaded, markdown, images, nav, runs, delete_urls, urls, di,
                   deleted_files, urls_to_process, ui, article_files_to_update,
                   has_changes, fate, snap, written, live>>

Next ==
    \/ StartRun
    \/ DeleteUnknown
    \/ DeleteArticle
    \/ PruneNav
    \/ LoadArticles
    \/ IngestArticle
    \/ IngestFails
    \/ UpdateNav
    \/ Build

Spec == Init /\ [][Next]_vars

\* ------------------- a legacy manifest, articles citing URLs, manual removal
XMd == <<"x", ".", "m", "d">>

N1Md == <<"0", "0", "1", ".", "m", "d">>

HomeFile == [title |-> <<"H">>, text |-> {}]

\* what markdown/ may hold when downloaded.json is still in the legacy shape
LegacyDirs ==
    { [f \in {HomeItem.path, N1Md, XMd} |->
          IF f = N1Md THEN [title |-> <<"?">>, text |-> {"u1"}]
          ELSE IF f = XMd THEN [title |-> <<"A", " ", "b">>, text |-> {"u1", "u2"}]
          ELSE HomeFile] }

InitLegacy ==
    /\ \E list \in BoundedSeq(URLs, MaxLines) \ {<<>>} :
          /\ downloaded = load_downloaded_urls(
                              [has_urls |-> TRUE, urls |-> list, articles |-> EmptyFn])
          /\ live = Range(list)
    /\ markdown \in LegacyDirs
    /\ images = {}
    /\ nav = <<HomeItem, PlainItem>>
    /\ pc = "idle"
    /\ runs = 0
    /\ delete_urls = <<>>
    /\ urls = <<>>
    /\ di = 1
    /\ deleted_files = <<>>
    /\ urls_to_process = <<>>
    /\ ui = 1
    /\ article_files_to_update = <<>>
    /\ has_changes = FALSE
    /\ fate = EmptyFn
    /\ build_rc = <<>>
    /\ snap = [downloaded |-> EmptyFn, markdown |-> EmptyFn, images |-> {},
               nav |-> <<>>, delete_urls |-> <<>>, urls |-> <<>>,
               repeat |-> FALSE, written |-> 0, preIngest |-> {}, missing |-> FALSE]
    /\ written = <<>>
    /\ procs = [p \in Procs |-> IdleProc]

\* the text of the fetched article contains other URLs of the model
IngestArticleCiting == Ingest((SUBSET (URLs \ {urls_to_process[ui]})) \ {{}})

\* between two runs somebody removes by hand the Markdown file of an article
\* that has a record
RemoveByHand ==
    /\ pc = "done"
    /\ runs < MaxRuns
    /\ \E u \in DOMAIN downloaded :
          /\ downloaded[u].filename \in DOMAIN markdown
          /\ markdown' = Restrict(markdown, DOMAIN markdown \ {downloaded[u].filename})
    /\ UNCHANGED procs
    /\ UNCHANGED <<downloaded, images, nav, pc, runs, delete_urls, urls, di,
                   deleted_files, urls_to_process, ui, article_files_to_update,
                   has_changes, fate, build_rc, snap, written, live>>

NextL ==
    \/ Next
    \/ IngestArticleCiting
    \/ RemoveByHand

SpecL == InitLegacy /\ [][NextL]_vars

\* ------------------------------------------- runs in a failing environment
\* main starts and articles.txt does not exist: load_delete_urls returns []
\* at line 78 and, later, load_articles returns [] at line 180
StartRunNoConfig ==
    /\ pc \in {"idle", "done", "aborted"}
    /\ runs < MaxRuns
    /\ delete_urls' = <<>>
    /\ urls' = <<>>
    /\ snap' = [downloaded |-> downloaded, markdown |-> markdown,
                images |-> images, nav |-> nav,
                delete_urls |-> <<>>, urls |-> <<>>, repeat |-> FALSE,
                written |-> Len(written), preIngest |-> {}, missing |-> TRUE]
    /\ pc' = "load"
    /\ runs' = runs + 1
    /\ di' = 1
    /\ ui' = 1
    /\ deleted_files' = <<>>
    /\ urls_to_process' = <<>>
    /\ article_files_to_update' = <<>>
    /\ has_changes' = FALSE
    /\ fate' = EmptyFn
    /\ build_rc' = <<>>
    /\ UNCHANGED procs
    /\ UNCHANGED <<downloaded, markdown, images, nav, written, live>>

\* main, line 492: init_driver() raises (no Chrome, no network for the driver
\* download); the call is outside every try, so the exception leaves main
InitDriverFails ==
    /\ pc = "load"
    /\ urls # <<>>
    /\ filter_new(urls, downloaded) # <<>>
    /\ urls_to_process' = filter_new(urls, downloaded)
    /\ pc' = "aborted"
    /\ snap' = [snap EXCEPT !.preIngest = DOMAIN markdown]
    /\ UNCHANGED procs
    /\ UNCHANGED <<downloaded, markdown, images, nav, runs, delete_urls, urls, di,
                   deleted_files, ui, article_files_to_update, has_changes,
                   fate, build_rc, written, live>>

NextF ==
    \/ Next
    \/ StartRunNoConfig
    \/ InitDriverFails

SpecF == Init /\ [][NextF]_vars


\* ------------------------------------- executions of main() side by side
\* Nothing locks downloaded.json or markdown/, so the file operations of two
\* executions interleave freely.  Each step below is one file operation of
\* the ingestion loop together with the local computation before it;
\* articles.txt holds no #DELETE: line here.
Others(p) == Procs \ {p}

\* variant: the upsert starts from the manifest main loaded at line 482
manifest_for_save_stale(downloaded_urls, on_disk) == downloaded_urls

\* save_downloaded_url, line 62: the upsert starts from a fresh load of the file
manifest_for_save(downloaded_urls, on_disk) == on_disk

\* main, lines 478-492, in process p: articles.txt is read, the manifest is
\* loaded once and the new URLs are kept
ProcStart(p) ==
    /\ procs[p].pc = "idle"
    /\ \E us \in BoundedSeq(URLs, MaxLines) :
        LET todo == filter_new(us, downloaded) IN
        procs' = [procs EXCEPT ![p] =
                     [@ EXCEPT !.pc = IF todo = <<>> THEN "done" ELSE "number",
                               !.alone = \A q \in Others(p) : procs[q].pc \in {"idle", "done"},
                               !.downloaded_urls = downloaded,
                               !.urls_to_process = todo]]
    /\ UNCHANGED <<downloaded, markdown, images, nav, pc, runs, delete_urls, urls, di,
                   deleted_files, urls_to_process, ui, article_files_to_update,
                   has_changes, fate, build_rc, snap, written, live>>

\* lines 496-498 and 346: the page is fetched, process_images makes the image
\* directory, save_markdown reads the directory for the next number
ProcNumber(p) ==
    /\ procs[p].pc = "number"
    /\ \E title \in Titles :
        /\ images' = images \cup
                        {article_image_dir(title, procs[p].urls_to_process[procs[p].i])}
        /\ procs' = [procs EXCEPT ![p] =
                        [@ EXCEPT !.pc = "write",
                                  !.title = title,
                                  !.article_num = get_next_article_number(markdown)]]
    /\ UNCHANGED <<downloaded, markdown, nav, pc, runs, delete_urls, urls, di,
                   deleted_files, urls_to_process, ui, article_files_to_update,
                   has_changes, fate, build_rc, snap, written, live>>

\* line 498 raises in process p: caught at line 506, the loop goes on
ProcFetchFails(p) ==
    /\ procs[p].pc = "number"
    /\ procs' = [procs EXCEPT ![p] =
                    [@ EXCEPT !.i = after_failure(@, Len(procs[p].urls_to_process)),
                              !.pc = IF procs[p].i < Len(procs[p].urls_to_process)
                                        THEN "number"
                                     ELSE IF procs[p].article_files_to_update # <<>>
                                        THEN "nav" ELSE "done"]]
    /\ UNCHANGED <<downloaded, markdown, images, nav, pc, runs, delete_urls, urls, di,
                   deleted_files, urls_to_process, ui, article_files_to_update,
                   has_changes, fate, build_rc, snap, written, live>>

\* save_markdown, lines 348-355: the file of that number is opened with 'w'
\* and written, whatever is there
ProcWrite(p) ==
    /\ procs[p].pc = "write"
    /\ LET filename == FileNameOf(procs[p].article_num)
           title == procs[p].title
       IN  /\ markdown' = [f \in DOMAIN markdown \cup {filename} |->
                              IF f = filename THEN [title |-> title, text |-> {}]
                              ELSE markdown[f]]
           /\ written' = Append(written,
                             [url |-> procs[p].urls_to_process[procs[p].i],
                              num |-> procs[p].article_num, filename |-> filename,
                              title |-> title, fresh |-> filename \notin DOMAIN markdown])
           /\ procs' = [procs EXCEPT ![p] =
                           [@ EXCEPT !.pc = "load",
                                     !.article_files_to_update =
                                         Append(@, <<filename, title>>)]]
    /\ UNCHANGED <<downloaded, images, nav, pc, runs, delete_urls, urls, di,
                   deleted_files, urls_to_process, ui, article_files_to_update,
                   has_changes, fate, build_rc, snap, live>>

\* save_downloaded_url, line 62
ProcLoad(p) ==
    /\ procs[p].pc = "load"
    /\ procs' = [procs EXCEPT ![p] =
                    [@ EXCEPT !.pc = "save",
                              !.articles = manifest_for_save(procs[p].downloaded_urls,
                                                             downloaded)]]
    /\ UNCHANGED <<downloaded, markdown, images, nav, pc, runs, delete_urls, urls, di,
                   deleted_files, urls_to_process, ui, article_files_to_update,
                   has_changes, fate, build_rc, snap, written, live>>

\* save_downloaded_url, lines 63-70: the record is set in the loaded dict and
\* the whole file is written from it
ProcSave(p) ==
    /\ procs[p].pc = "save"
    /\ LET url == procs[p].urls_to_process[procs[p].i] IN
        /\ downloaded' = save_downloaded_url(procs[p].articles, url,
                                             FileNameOf(procs[p].article_num), runs)
        /\ live' = live \cup {url}
    /\ procs' = [procs EXCEPT ![p] =
                    [@ EXCEPT !.i = @ + 1,
                              !.pc = IF procs[p].i < Len(procs[p].urls_to_process)
                                        THEN "number" ELSE "nav"]]
    /\ UNCHANGED <<markdown, images, nav, pc, runs, delete_urls, urls, di,
                   deleted_files, urls_to_process, ui, article_files_to_update,
                   has_changes, fate, build_rc, snap, written>>

\* main, lines 509-528 in process p: the nav update and the build
ProcFinish(p) ==
    /\ procs[p].pc = "nav"
    /\ nav' = update_mkdocs_nav(nav, procs[p].article_files_to_update)
    /\ procs' = [procs EXCEPT ![p] = [@ EXCEPT !.pc = "done"]]
    /\ UNCHANGED <<downloaded, markdown, images, pc, runs, delete_urls, urls, di,
                   deleted_files, urls_to_process, ui, article_files_to_update,
                   has_changes, fate, build_rc, snap, written, live>>

NextC ==
    \E p \in Procs :
        \/ ProcStart(p)
        \/ ProcNumber(p)
        \/ ProcFetchFails(p)
        \/ ProcWrite(p)
        \/ ProcLoad(p)
        \/ ProcSave(p)
        \/ ProcFinish(p)

SpecC == Init /\ [][NextC]_vars


\* ====================================================== properties
\* the state of the four stores when the current run started
disk_at_start == <<snap.downloaded, snap.markdown, snap.images, snap.nav>>

\* the save_markdown calls of the current run
run_written == SubSeq(written, snap.written + 1, Len(written))

\* URLs with a record and a recorded file name when the current run started
recorded_at_start == {u \in DOMAIN snap.downloaded : snap.downloaded[u].filename # NoFilename}

\* the one-key mappings of nav after entry 0
later_paths(n) == {n[i].path : i \in {j \in DOMAIN n : j > 1 /\ n[j].kind = "dict"}}

\* C1: when a run is over, every URL that had a record with a file name at
\* its start, is flagged #DELETE: and is not listed for ingestion has no
\* record, its recorded Markdown file does not exist and no directory of
\* markdown/images ends with _<its hash>.
C1_DeletionCompleteFilesManifest ==
    pc = "done" =>
        \A U \in recorded_at_start :
            (U \in Range(delete_urls) /\ U \notin Range(urls)) =>
                /\ snap.downloaded[U].filename \notin DOMAIN markdown
                /\ matching_image_dirs(images, U) = {}
                /\ U \notin DOMAIN downloaded

\* C2: when a run that deleted a recorded URL is over, no nav entry after
\* entry 0 has the file name that was recorded for that URL as its path.
C2_DeletionPrunesNavigation ==
    pc = "done" =>
        \A U \in recorded_at_start :
            U \in Range(deleted_files) =>
                snap.downloaded[U].filename \notin later_paths(nav)

\* C3 as stated: a run that repeats the previous run's articles.txt, every
\* listed URL having a record when it starts, ends with nothing to process
\* and with manifest, Markdown files, image directories and nav as they were.
C3_IdempotenceAsStated ==
    (pc = "done" /\ snap.repeat) =>
        /\ urls_to_process = <<>>
        /\ disk = disk_at_start

\* C3 amended: the same, for an articles.txt that does not flag for deletion
\* a URL it also lists for ingestion; the stores then stay as they were at
\* every step of the repeated run.
C3_Idempotence ==
    (snap.repeat /\ Range(urls) \cap Range(delete_urls) = {}) =>
        /\ urls_to_process = <<>>
        /\ disk = disk_at_start

C3_Witness ==
    /\ pc = "done"
    /\ snap.repeat
    /\ Range(urls) \cap Range(delete_urls) = {}
    /\ urls # <<>>
    /\ delete_urls # <<>>
    /\ Len(written) > 0

C5_NumbersNeverReused ==
    \A i, j \in DOMAIN written : i < j => written[i].num < written[j].num

\* C6: when the ingestion loop is over, every URL of urls_to_process was
\* attempted; each one that did not fail has a record and its file; each one
\* that failed has neither; the files were written in list order; and the
\* directory gained as many files as there are non-failing list entries.
C6_PartialFailureIsolation ==
    pc \in {"nav", "build", "done"} =>
        /\ Range(urls_to_process) \subseteq DOMAIN fate
        /\ \A u \in Range(urls_to_process) \cap DOMAIN fate :
              IF fate[u] = "ok"
              THEN /\ u \in DOMAIN downloaded
                   /\ downloaded[u].filename \in DOMAIN markdown
              ELSE /\ u \notin DOMAIN downloaded
                   /\ \A i \in DOMAIN run_written : run_written[i].url # u
        /\ [i \in DOMAIN run_written |-> run_written[i].url]
               = SelectSeq(urls_to_process, LAMBDA u : u \in DOMAIN fate /\ fate[u] = "ok")
        /\ snap.preIngest \subseteq DOMAIN markdown
        /\ Cardinality(DOMAIN markdown \ snap.preIngest)
               = Cardinality({i \in DOMAIN urls_to_process :
                                 /\ urls_to_process[i] \in DOMAIN fate
                                 /\ fate[urls_to_process[i]] = "ok"})

C6_Witness ==
    /\ pc = "done"
    /\ \E i, j \in DOMAIN urls_to_process :
          /\ i < j
          /\ fate[urls_to_process[i]] # "ok"
          /\ fate[urls_to_process[j]] = "ok"
          /\ urls_to_process[j] \in DOMAIN downloaded

\* C7: the keys of the manifest are exactly the URLs that were ingested and
\* have not been the object of a deletion request since.
C7_ManifestKeys == DOMAIN downloaded = live

C7_Witness ==
    /\ pc = "done"
    /\ live # {}
    /\ \E i \in DOMAIN written : written[i].url \notin live

\* C8: once the navigation has been augmented, every (filename, title) added
\* in the run has a nav entry with that path and that title.
C8_NewArticlesInNavigation ==
    pc \in {"build", "done"} =>
        \A i \in DOMAIN article_files_to_update :
            \E j \in DOMAIN nav :
                /\ nav[j].kind = "dict"
                /\ nav[j].path = article_files_to_update[i][1]
                /\ nav[j].title = article_files_to_update[i][2]

\* C9: the paths of the nav entries are pairwise distinct, and an
\* augmentation whose file names are all present already leaves nav as it is.
NavPathsDistinct ==
    \A i, j \in DOMAIN nav :
        (nav[i].kind = "dict" /\ nav[j].kind = "dict" /\ nav[i].path = nav[j].path) => i = j

InsertPresentIsNoOp ==
    (/\ pc = "nav"
     /\ \A i \in DOMAIN article_files_to_update :
           article_files_to_update[i][1] \in nav_paths(nav)) => nav' = nav

C9_NavigationPathsUnique == []NavPathsDistinct /\ [][InsertPresentIsNoOp]_vars

C9_Witness ==
    /\ pc = "done"
    /\ article_files_to_update # <<>>
    /\ \A i \in DOMAIN article_files_to_update :
          article_files_to_update[i][1] \in nav_paths(snap.nav)

\* C10: no step changes or removes entry 0 of nav, the entries that survive
\* a step keep their relative order, and new entries follow all of them.
NavStepKeepsHomeAndOrder ==
    LET old == nav
        new == nav'
    IN  /\ old # <<>> => (new # <<>> /\ new[1] = old[1])
        /\ SelectSeq(old, LAMBDA e : e \in Range(new))
              = SelectSeq(new, LAMBDA e : e \in Range(old))
        /\ \A i, j \in DOMAIN new :
              (i < j /\ new[i] \notin Range(old)) => new[j] \notin Range(old)

C10_HomeProtectedOrderKept == [][NavStepKeepsHomeAndOrder]_vars

C10_Witness ==
    /\ pc = "done"
    /\ nav # <<>>
    /\ Len(nav) > Len(snap.nav)
    /\ \E U \in recorded_at_start \cap Range(deleted_files) :
          snap.downloaded[U].filename = nav[1].path


\* C11: no run stops before its final step: whatever fails, main does not
\* end by an exception.
C11_RunReachesDone == pc # "aborted"


\* C12: a legacy manifest loads as one record without file name per listed
\* URL; a URL with such a record is never in urls_to_process; deleting such a
\* URL removes one Markdown file whose content contains it (none when no file
\* contains it) and its record, and leaves every other record as it was.
LegacyLoaded ==
    runs = 0 =>
        /\ DOMAIN downloaded = live
        /\ \A u \in DOMAIN downloaded : downloaded[u].filename = NoFilename

LegacyNotProcessed ==
    \A u \in DOMAIN downloaded :
        downloaded[u].filename = NoFilename => u \notin Range(urls_to_process)

LegacyDeleteStep ==
    (/\ pc = "delete"
     /\ delete_urls[di] \in DOMAIN downloaded
     /\ downloaded[delete_urls[di]].filename = NoFilename) =>
        LET U == delete_urls[di]
            hits == {f \in DOMAIN markdown : EndsWith(f, DotMd) /\ U \in markdown[f].text}
        IN  /\ IF hits = {} THEN markdown' = markdown
               ELSE \E f \in hits : markdown' = Restrict(markdown, DOMAIN markdown \ {f})
            /\ DOMAIN downloaded' = DOMAIN downloaded \ {U}
            /\ \A V \in DOMAIN downloaded' : downloaded'[V] = downloaded[V]

C12_LegacyManifest ==
    /\ []LegacyLoaded
    /\ []LegacyNotProcessed
    /\ [][LegacyDeleteStep]_vars

C12_Witness ==
    /\ pc = "done"
    /\ \E U \in Range(deleted_files) :
          /\ U \in DOMAIN snap.downloaded
          /\ snap.downloaded[U].filename = NoFilename
          /\ \E f \in DOMAIN snap.markdown \ DOMAIN markdown : U \in snap.markdown[f].text
    /\ \E V \in DOMAIN downloaded : downloaded[V].filename = NoFilename
    /\ \E V \in Range(urls) : V \in DOMAIN downloaded /\ V \notin Range(urls_to_process)


\* C13: within a run the phases follow each other in the order deletion,
\* pruning, ingestion, augmentation, build; records, files and image
\* directories are removed only by deletion steps, nav shrinks only in
\* pruning, files and records are added only by ingestion steps, nav grows
\* only in augmentation; and a finished run has invoked the build exactly
\* once, as its last step.
PhaseRank(p) ==
    CASE p = "idle" -> 0
      [] p = "delete" -> 1
      [] p = "prune" -> 2
      [] p = "load" -> 3
      [] p = "ingest" -> 4
      [] p = "nav" -> 5
      [] p = "build" -> 6
      [] OTHER -> 7

PhaseStep ==
    /\ runs' = runs => PhaseRank(pc') >= PhaseRank(pc)
    /\ (\/ ~(DOMAIN downloaded \subseteq DOMAIN downloaded')
        \/ ~(DOMAIN markdown \subseteq DOMAIN markdown')
        \/ ~(images \subseteq images')) => (pc = "delete" /\ pc' \in {"delete", "prune", "load"})
    /\ (\/ ~(DOMAIN downloaded' \subseteq DOMAIN downloaded)
        \/ ~(DOMAIN markdown' \subseteq DOMAIN markdown)
        \/ ~(images' \subseteq images)
        \/ written' # written) => (pc = "ingest" /\ pc' \in {"ingest", "nav", "build"})
    /\ Len(nav') < Len(nav) => (pc = "prune" /\ pc' = "load")
    /\ Len(nav') > Len(nav) => (pc = "nav" /\ pc' = "build")
    /\ (runs' = runs /\ build_rc' # build_rc) => (pc = "build" /\ pc' = "done")

BuiltOnce ==
    /\ pc = "done" => Len(build_rc) = 1
    /\ pc # "done" => build_rc = <<>>

C14_EveryDeletionCounts ==
    pc \in {"prune", "load", "ingest", "nav", "build", "done"} =>
        \A U \in DOMAIN snap.downloaded \cap Range(delete_urls) :
            /\ U \in Range(deleted_files)
            /\ has_changes
            /\ pc \in {"prune", "load"} => U \notin DOMAIN downloaded


\* C15: no URL is saved twice in one run, so a run writes at most one
\* Markdown file per URL.
C15_ProcessedAtMostOnce ==
    \A i, j \in DOMAIN run_written :
        run_written[i].url = run_written[j].url => i = j


\* C16: a deletion request for a URL without record changes neither the
\* manifest, nor a Markdown file, nor an image directory, nor nav, nor
\* deleted_files, nor has_changes, and the loop goes on: when the deletion
\* phase is over every request has been handled.
UnknownDeleteStep ==
    (pc = "delete" /\ delete_urls[di] \notin DOMAIN downloaded) =>
        /\ disk' = disk
        /\ deleted_files' = deleted_files
        /\ has_changes' = has_changes
        /\ di' = di + 1

AllRequestsHandled == pc # "delete" => di = Len(delete_urls) + 1

C16_UnknownDeleteIsNoOp == []AllRequestsHandled /\ [][UnknownDeleteStep]_vars

C16_Witness ==
    /\ pc = "done"
    /\ \E i, j \in DOMAIN delete_urls :
          /\ i < j
          /\ delete_urls[i] \notin DOMAIN snap.downloaded
          /\ delete_urls[i] \notin Range(urls)
          /\ matching_image_dirs(snap.images, delete_urls[i]) # {}
          /\ matching_image_dirs(images, delete_urls[i]) # {}
          /\ delete_urls[j] \in Range(deleted_files)


\* C17: a run that finds no articles.txt deletes nothing, processes nothing,
\* starts no browser session, leaves manifest, Markdown files, image
\* directories and nav as they were and goes on to the build and the last step.
C17_MissingConfigEndsEarly ==
    snap.missing =>
        /\ pc \in {"load", "build", "done"}
        /\ delete_urls = <<>>
        /\ deleted_files = <<>>
        /\ urls_to_process = <<>>
        /\ article_files_to_update = <<>>
        /\ ~has_changes
        /\ disk = disk_at_start

C17_Witness ==
    /\ snap.missing
    /\ pc = "done"
    /\ DOMAIN downloaded # {}
    /\ images # {}


\* C19: a deletion step for URL U leaves the record of every other URL as it
\* was and removes neither the Markdown file recorded for another URL nor an
\* image directory made for another URL.
DeleteTouchesOnlyItsArticle ==
    (pc = "delete" /\ delete_urls[di] \in DOMAIN downloaded) =>
        \A V \in DOMAIN downloaded \ {delete_urls[di]} :
            /\ V \in DOMAIN downloaded'
            /\ downloaded'[V] = downloaded[V]
            /\ downloaded[V].filename \in DOMAIN markdown =>
                  downloaded[V].filename \in DOMAIN markdown'
            /\ matching_image_dirs(images, V) \subseteq images'

C19_DeleteTouchesOnlyItsArticle == [][DeleteTouchesOnlyItsArticle]_vars

\* C20: every record with a file name names a Markdown file that exists, and
\* every existing Markdown file that ingestion wrote is named by a record
\* unless the URL it was written for has been deleted since.
C20_ManifestFilesConsistent ==
    /\ \A u \in DOMAIN downloaded :
          downloaded[u].filename # NoFilename => downloaded[u].filename \in DOMAIN markdown
    /\ \A i \in DOMAIN written :
          (/\ written[i].filename \in DOMAIN markdown
           /\ \A j \in DOMAIN written : j > i => written[j].filename # written[i].filename) =>
              \/ \E u \in DOMAIN downloaded : downloaded[u].filename = written[i].filename
              \/ written[i].url \notin live

\* C18: when no execution of main() starts while another one is under way,
\* every URL whose record has been upserted is in downloaded.json; executions
\* that overlap can lose a record and can draw the same number.
Serial == \A p \in Procs : procs[p].pc # "idle" => procs[p].alone

C18_SerialRunsLoseNoUpsert == Serial => live \subseteq DOMAIN downloaded

\* two overlapping executions, one URL each, have finished: both drew the
\* same number, and a URL whose file was written and whose record was
\* upserted is missing from downloaded.json
C18_Witness ==
    /\ \A p \in Procs : procs[p].pc = "done" /\ Len(procs[p].urls_to_process) = 1
    /\ ~Serial
    /\ procs["p1"].article_num = procs["p2"].article_num
    /\ \E i \in DOMAIN written :
          /\ written[i].url \in live \ DOMAIN downloaded
          /\ written[i].filename \in DOMAIN markdown

====
